---- MODULE Spec2Model ----
(***************************************************************************)
(* Model of oscgui.py (OSC1Lite stimulate GUI): the MainFrame session      *)
(* state, the foreground event handlers (on_connect, on_trigger, on_stop,  *)
(* on_toggle, on_trigger_choice) and the two background polling threads    *)
(* (device_lister, device_watcher).                                        *)
(*                                                                         *)
(* Granularity.  The wx main loop runs one handler at a time, so the       *)
(* foreground is one sequential process (fg.pc).  Every background thread  *)
(* ever started is an entry of `threads'; self.thread is the index         *)
(* `thread'.  A call into the transport (ok.okCFrontPanel, or an OSC1Lite  *)
(* method that talks to it) takes two steps: the step that enters the call *)
(* sets pc to the call's name, the next step is its return.  Reads and     *)
(* writes of self.device are steps of their own.                           *)
(***************************************************************************)
EXTENDS Integers, Sequences, FiniteSets, TLC

\* ------------------------------------------------------------------ bounds
\* channels modelled (the program builds 12, oscgui.py:253)
NumChannels == 2
\* waveform slots modelled (the program builds 4, oscgui.py:243)
NumSlots == 2
\* largest pulse count the user enters (the SpinCtrl allows up to 0xffff)
MaxPulses == 2
\* threads ever started, the first device_lister included
MaxThreads == 3
\* widget edits by the user over a run
MaxEdits == 2

Channels == 0 .. (NumChannels - 1)
Slots == 0 .. (NumSlots - 1)

\* ------------------------------------------------------------------ values
None == "None"
OSC1Lite == "OSC1Lite"
NoDevicesLabel == "[No connected devices]"
\* wx.Choice.GetString(wx.NOT_FOUND): the empty string
NotFound == ""

Entry(m, s) == [model |-> m, serial |-> s]

\* Device tables the transport may enumerate: two devices, a gap (empty
\* model and serial) before a device, an entry whose serial alone is empty
\* before a device.
Tables ==
  { << Entry("OSC1Lite-A", "SN001"), Entry("OSC1Lite-B", "SN002") >>,
    << Entry("OSC1Lite-A", "SN001"), Entry("", ""), Entry("OSC1Lite-B", "SN002") >>,
    << Entry("OSC1Lite-A", ""), Entry("OSC1Lite-B", "SN002") >> }

\* a time in seconds, kept as the fraction ms / 1000
Seconds(ms) == << ms, 1000 >>

\* A ChannelInfo: the square waveform's amplitude (uA), pulse width and
\* period (seconds), rise mode; the pulse count and the trigger source
\* (0 PC trigger, 1 external trigger).
ChannelInfo(amp, pw, period, mode, n, ext) ==
  [amp |-> amp, pw |-> pw, period |-> period, mode |-> mode,
   n_pulses |-> n, ext_trig |-> ext]

\* no ChannelInfo (nothing written yet)
NoInfo == ChannelInfo(-1, << -1, 1 >>, << -1, 1 >>, -1, -1, -1)

VARIABLES
  device,       \* self.device: None or an OSC1Lite session
  isOpen,       \* the transport's open state (self._dev.IsOpen())
  table,        \* the devices attached, as the transport enumerates them
  devices,      \* self.devices: set of <<serial, model>>, one per serial
  choiceSel,    \* device_choice.GetString(device_choice.GetSelection())
  choiceEnabled,\* device_choice enabled
  connectEnabled,\* connect_button enabled
  connectLabel, \* connect_button label
  ui,           \* channels_ui: per channel, the six controls
  panels,       \* waveform_panels: per slot, the pulse count field
  fg,           \* the foreground handler in progress
  fgCalls,      \* the transport calls the handler in progress has entered
  result,       \* how the last on_connect went, or the handler that raised since
  written,      \* per channel, the ChannelInfo last passed to set_channel of the session held
  threads,      \* every thread started so far
  thread,       \* self.thread: index into threads
  unexpectedLog,\* 'device closed unexpectedly' warnings logged
  closedBy,     \* what closed the transport last: "Close", "unplugged", or "" since OpenBySerial
  edits,        \* widget edits made
  preview       \* what the last on_preview got from get_waveform

vars == << device, isOpen, table, devices, choiceSel, choiceEnabled,
           connectEnabled, connectLabel, ui, panels, fg, fgCalls, result,
           written, threads, thread, unexpectedLog, closedBy, edits,
           preview >>

sessionVars == << device, isOpen >>
guiVars == << choiceSel, choiceEnabled, connectEnabled, connectLabel >>
logVars == << unexpectedLog, closedBy >>
userVars == << panels, edits, preview >>

\* ------------------------------------------------------------------ helpers
\* dict[k] = v on a dict kept as a set of <<key, value>> pairs
DictSet(d, k, v) == { p \in d : p[1] # k } \cup { << k, v >> }
DictKeys(d) == { p[1] : p \in d }

\* a thread's frame: its locals (device_lister: n, i, model, devs, curr and
\* seen, the entries this poll was handed; device_watcher: warn) and, of a
\* device_watcher, logged: per channel the 'Overlapped trigger detected'
\* warnings its last `for i in warn' loop logged, and again: whether the
\* loop before had logged a warning for each of these channels too
NoCounts == [c \in Channels |-> 0]

Frame(kind, pc) ==
  [kind |-> kind, pc |-> pc, exit |-> "", n |-> 0, i |-> 0, model |-> "",
   devs |-> {}, seen |-> << >>, curr |-> "", warn |-> {},
   logged |-> NoCounts, again |-> FALSE]

\* the frame as the next iteration finds it: pc moved, the loop's locals reset
Goto(f, pc) ==
  [Frame(f.kind, pc) EXCEPT !.logged = f.logged, !.again = f.again]

\* a thread that has ended: its locals are gone
Ended(kind, how) == [Frame(kind, "done") EXCEPT !.exit = how]

Alive(t) == threads[t].pc # "done"
Threads == 1 .. Len(threads)

Call(op, ch, info, arg) == [op |-> op, ch |-> ch, info |-> info, arg |-> arg]

\* the handler in progress: where it is, the channel whose control raised
\* the event (src), the channel and ChannelInfo it passes on (ch, data)
Idle == [pc |-> "idle", handler |-> "", src |-> -1, ch |-> -1, data |-> NoInfo]

\* how a handler went: the handler and its branch, "running", "returned" or
\* "raised" (an exception left it), the step that failed, the exception
Result(h, branch, how, step, exc) ==
  [handler |-> h, branch |-> branch, end |-> how, failed |-> step, exc |-> exc]
NoResult == Result("", "", "", "", "")

\* no preview drawn yet
NoPreview == [slot |-> -1, rise_time |-> -1, mode |-> -1]

\* ------------------------------------------------------------------ Init
\* MainFrame.__init__: no session, no devices known, the connect button
\* and every channel button disabled, the first device_lister started.
\* the Enable(False) calls left out
ChannelCtrlEnabled ==
  [waveform_choice |-> 0, trigger_choice |-> 0, continuous_toggle |-> FALSE,
   trigger_button |-> TRUE, stop_button |-> TRUE,
   trigger_out_enabled |-> TRUE, trigger_out_toggle |-> FALSE]

ChannelCtrl ==
  [waveform_choice |-> 0, trigger_choice |-> 0, continuous_toggle |-> FALSE,
   trigger_button |-> FALSE, stop_button |-> FALSE,
   trigger_out_enabled |-> FALSE, trigger_out_toggle |-> FALSE]

Init ==
  /\ device = None
  /\ isOpen = FALSE
  /\ table \in Tables
  /\ devices = {}
  /\ choiceSel = NoDevicesLabel
  /\ choiceEnabled = TRUE
  /\ connectEnabled = FALSE
  /\ connectLabel = "Connect"
  /\ ui = [c \in Channels |-> ChannelCtrl]
  /\ panels = [s \in Slots |-> [num_of_pulses |-> 1, rise_time |-> 0]]
  /\ fg = Idle
  /\ fgCalls = << >>
  /\ result = NoResult
  /\ written = [c \in Channels |-> NoInfo]
  /\ threads = << Frame("device_lister", "l171") >>
  /\ thread = 1
  /\ unexpectedLog = 0
  /\ closedBy = ""
  /\ edits = 0
  /\ preview = NoPreview

SetThread(t, f) == [threads EXCEPT ![t] = f]

\* ------------------------------------------------------------------ device_lister
\* `while self.device is None' (oscgui.py:171)
ListerCond(d) == d = None

\* okCFrontPanel.GetDeviceListModel(i) / GetDeviceListSerial(i): the empty
\* string beyond the end of the table
TableModel(tb, i) == IF i < Len(tb) THEN tb[i + 1].model ELSE ""
TableSerial(tb, i) == IF i < Len(tb) THEN tb[i + 1].serial ELSE ""

\* `if model and serial' (oscgui.py:176)
Present(model, serial) == model # "" /\ serial # ""

\* `continue' in place of `break'
NextIndexSkip(present, i, n) == i + 1

\* the index the for loop goes on with after entry i: the next one, or n
\* (the loop is over) at the `break' on a gap (oscgui.py:173, 176-179)
NextIndex(present, i, n) == IF present THEN i + 1 ELSE n

\* loop test; on entry `devices = {}' and the call of GetDeviceCount
ListerWhile(t) ==
  /\ t \in Threads
  /\ threads[t].kind = "device_lister"
  /\ threads[t].pc = "l171"
  /\ threads' = SetThread(t,
       IF ListerCond(device)
         THEN Frame("device_lister", "GetDeviceCount")
         ELSE Ended("device_lister", "cond"))
  /\ UNCHANGED << sessionVars, table, devices, guiVars, ui, userVars, fg,
                  fgCalls, result, written, thread, logVars >>

\* GetDeviceCount returns; `for i in range(count)' starts
GetDeviceCountRet(t) ==
  /\ t \in Threads
  /\ threads[t].pc = "GetDeviceCount"
  /\ LET n == Len(table) IN
       threads' = SetThread(t,
         [threads[t] EXCEPT !.n = n, !.i = 0,
            !.pc = IF 0 < n THEN "GetDeviceListModel" ELSE "l180"])
  /\ UNCHANGED << sessionVars, table, devices, guiVars, ui, userVars, fg,
                  fgCalls, result, written, thread, logVars >>

\* GetDeviceListModel(i) returns; GetDeviceListSerial(i) is called
GetDeviceListModelRet(t) ==
  /\ t \in Threads
  /\ threads[t].pc = "GetDeviceListModel"
  /\ threads' = SetThread(t,
       [threads[t] EXCEPT !.model = TableModel(table, threads[t].i),
                          !.pc = "GetDeviceListSerial"])
  /\ UNCHANGED << sessionVars, table, devices, guiVars, ui, userVars, fg,
                  fgCalls, result, written, thread, logVars >>

\* GetDeviceListSerial(i) returns; the entry is kept or the loop breaks
GetDeviceListSerialRet(t) ==
  /\ t \in Threads
  /\ threads[t].pc = "GetDeviceListSerial"
  /\ LET f == threads[t]
         serial == TableSerial(table, f.i)
         here == Present(f.model, serial)
         next == NextIndex(here, f.i, f.n)
     IN threads' = SetThread(t,
          [f EXCEPT !.seen = Append(f.seen, Entry(f.model, serial)),
                    !.devs = IF here THEN DictSet(f.devs, serial, f.model)
                                     ELSE f.devs,
                    !.model = "",
                    !.i = next,
                    !.pc = IF next < f.n THEN "GetDeviceListModel"
                                         ELSE "l180"])
  /\ UNCHANGED << sessionVars, table, devices, guiVars, ui, userVars, fg,
                  fgCalls, result, written, thread, logVars >>

\* `if devices != self.devices': publish, read the current selection and
\* replace the choice's items (which clears its selection), or show the
\* placeholder and disable the connect button; then sleep
ListerPublish(t) ==
  /\ t \in Threads
  /\ threads[t].pc = "l180"
  /\ LET f == threads[t] IN
       IF f.devs # devices
         THEN /\ devices' = f.devs
              /\ IF f.devs # {}
                   THEN /\ choiceSel' = NotFound
                        /\ threads' = SetThread(t,
                             [f EXCEPT !.curr = choiceSel, !.pc = "l187"])
                        /\ UNCHANGED connectEnabled
                   ELSE /\ choiceSel' = NoDevicesLabel
                        /\ connectEnabled' = FALSE
                        /\ threads' = SetThread(t, Frame("device_lister", "l171"))
         ELSE /\ threads' = SetThread(t, Frame("device_lister", "l171"))
              /\ UNCHANGED << devices, choiceSel, connectEnabled >>
  /\ UNCHANGED << sessionVars, table, choiceEnabled, connectLabel, ui,
                  userVars, fg, fgCalls, result, written, thread, logVars >>

\* keep the selection if the serial is still listed, else item 0 (the
\* first key of a dict, whose order Python 3.5 leaves open); enable the
\* connect button; sleep
ListerSelect(t) ==
  /\ t \in Threads
  /\ threads[t].pc = "l187"
  /\ LET f == threads[t] IN
       \E s \in DictKeys(devices) :
         /\ (f.curr \in DictKeys(devices) => s = f.curr)
         /\ choiceSel' = s
  /\ connectEnabled' = TRUE
  /\ threads' = SetThread(t, Frame("device_lister", "l171"))
  /\ UNCHANGED << sessionVars, table, devices, choiceEnabled, connectLabel,
                  ui, userVars, fg, fgCalls, result, written, thread,
                  logVars >>

\* ------------------------------------------------------------------ device_watcher
\* `while self.device is not None' left out
WatcherCondAlways(d) == TRUE

\* `while self.device is not None' (oscgui.py:201)
WatcherCond(d) == d # None

\* a channel the last loop logged is not logged again
ReportsOnce(warn, logged) == { c \in warn : logged[c] = 0 }

\* the channels the `for i in warn' loop logs a warning for (oscgui.py:208-210)
Reports(warn, logged) == warn

\* the `return' left out
ClosedOutcomeContinue == "continue"

\* what IsOpen's answer False leads to: the `return' (oscgui.py:203-206)
ClosedOutcome == "return"

\* the watcher clears the session itself
SessionAfterClosureCleared(d) == None

\* self.device after the watcher found the transport closed: the branch
\* logs and returns, the session is left as it is (oscgui.py:203-206)
SessionAfterClosure(d) == d

\* loop test
WatcherWhile(t) ==
  /\ t \in Threads
  /\ threads[t].kind = "device_watcher"
  /\ threads[t].pc = "w201"
  /\ threads' = SetThread(t,
       IF WatcherCond(device)
         THEN Goto(threads[t], "w202")
         ELSE Ended("device_watcher", "cond"))
  /\ UNCHANGED << sessionVars, table, devices, guiVars, ui, userVars, fg,
                  fgCalls, result, written, thread, logVars >>

\* `assert isinstance(self.device, osc1lite.OSC1Lite)', then IsOpen is called
WatcherCheck(t) ==
  /\ t \in Threads
  /\ threads[t].pc = "w202"
  /\ threads' = SetThread(t,
       IF device = OSC1Lite
         THEN Goto(threads[t], "IsOpen")
         ELSE Ended("device_watcher", "AssertionError"))
  /\ UNCHANGED << sessionVars, table, devices, guiVars, ui, userVars, fg,
                  fgCalls, result, written, thread, logVars >>

\* IsOpen returns: on False the warning is logged and the thread returns
WatcherIsOpenRet(t) ==
  /\ t \in Threads
  /\ threads[t].pc = "IsOpen"
  /\ IF isOpen
       THEN /\ threads' = SetThread(t, Goto(threads[t], "w207"))
            /\ UNCHANGED << unexpectedLog, device >>
       ELSE /\ unexpectedLog' = unexpectedLog + 1
            /\ device' = SessionAfterClosure(device)
            /\ threads' = SetThread(t,
                 IF ClosedOutcome = "return"
                   THEN Ended("device_watcher", "closed")
                   ELSE Goto(threads[t], "w207"))
  /\ UNCHANGED << isOpen, table, devices, guiVars, ui, userVars, fg,
                  fgCalls, result, written, thread, closedBy >>

\* `self.device.get_channel_warnings' is looked up and called: on None the
\* attribute lookup raises AttributeError
WatcherCallWarnings(t) ==
  /\ t \in Threads
  /\ threads[t].pc = "w207"
  /\ threads' = SetThread(t,
       IF device = OSC1Lite
         THEN Goto(threads[t], "get_channel_warnings")
         ELSE Ended("device_watcher", "AttributeError"))
  /\ UNCHANGED << sessionVars, table, devices, guiVars, ui, userVars, fg,
                  fgCalls, result, written, thread, logVars >>

\* get_channel_warnings returns a set of channels, one of `answers'
WatcherWarningsRet(t, answers) ==
  /\ t \in Threads
  /\ threads[t].pc = "get_channel_warnings"
  /\ \E w \in answers :
       threads' = SetThread(t, [threads[t] EXCEPT !.warn = w, !.pc = "w208"])
  /\ UNCHANGED << sessionVars, table, devices, guiVars, ui, userVars, fg,
                  fgCalls, result, written, thread, logVars >>

\* the `for i in warn' loop logs its warnings; sleep
WatcherReport(t) ==
  /\ t \in Threads
  /\ threads[t].pc = "w208"
  /\ LET f == threads[t]
         r == Reports(f.warn, f.logged)
     IN threads' = SetThread(t,
          [Goto(f, "w201") EXCEPT
             !.logged = [c \in Channels |-> IF c \in r THEN 1 ELSE 0],
             !.again = r # {} /\ \A c \in r : f.logged[c] > 0])
  /\ UNCHANGED << sessionVars, table, devices, guiVars, ui, userVars, fg,
                  fgCalls, result, written, thread, logVars >>

\* ------------------------------------------------------------------ environment
\* a device is attached or removed while a device_lister is running
EnvTable ==
  /\ \E t \in Threads : threads[t].kind = "device_lister" /\ Alive(t)
  /\ \E tb \in Tables \ {table} : table' = tb
  /\ UNCHANGED << sessionVars, devices, guiVars, ui, userVars, fg, fgCalls,
                  result, written, threads, thread, logVars >>

\* the open device is unplugged: the transport is no longer open
EnvClose ==
  /\ isOpen
  /\ isOpen' = FALSE
  /\ closedBy' = "unplugged"
  /\ UNCHANGED << device, table, devices, guiVars, ui, userVars, fg, fgCalls,
                  result, written, threads, thread, unexpectedLog >>

\* ------------------------------------------------------------------ on_connect
\* the join left out
JoinReturnsAtOnce(t) == TRUE

\* Thread.join() returns once the thread has ended (oscgui.py:394, 413)
JoinReturns(t) == ~Alive(t)

\* the targets of the threads started at oscgui.py:406 and 414
ConnectTarget == "device_watcher"

\* the wrong target
DisconnectTargetWatcher == "device_watcher"

DisconnectTarget == "device_lister"

StartPc(kind) == IF kind = "device_lister" THEN "l171" ELSE "w201"

\* reset before configure
InitStepsSwapped == << "reset", "configure", "init_dac", "enable_dac_output" >>

\* the steps after the join of the connect branch, in order (oscgui.py:395-399)
InitSteps == << "configure", "reset", "init_dac", "enable_dac_output" >>
StepIndex(name) == CHOOSE k \in 1 .. Len(InitSteps) : InitSteps[k] = name

\* OpenBySerial succeeds only for the serial of an attached device
Attached(serial) ==
  \E k \in 1 .. Len(table) : table[k].serial = serial /\ Present(table[k].model, serial)

\* the Connect / Disconnect button is pressed: `if self.device is None',
\* then the first call of the branch taken is entered
OnConnect ==
  /\ fg.pc = "idle"
  /\ connectEnabled
  /\ Len(threads) < MaxThreads
  /\ IF device = None
       THEN /\ choiceEnabled' = FALSE
            /\ fg' = [Idle EXCEPT !.pc = "OpenBySerial", !.handler = "on_connect"]
            /\ fgCalls' = << Call("OpenBySerial", -1, NoInfo, choiceSel) >>
            /\ result' = Result("on_connect", "connect", "running", "", "")
       ELSE /\ fg' = [Idle EXCEPT !.pc = "Close", !.handler = "on_connect"]
            /\ fgCalls' = << Call("Close", -1, NoInfo, "") >>
            /\ result' = Result("on_connect", "disconnect", "running", "", "")
            /\ UNCHANGED choiceEnabled
  /\ UNCHANGED << sessionVars, table, devices, choiceSel, connectEnabled,
                  connectLabel, ui, userVars, written, threads, thread,
                  logVars >>

\* OpenBySerial returns its error code, which on_connect does not look at
OpenBySerialRet ==
  /\ fg.pc = "OpenBySerial"
  /\ \E ok \in BOOLEAN :
       /\ ok => Attached(fgCalls[1].arg)
       /\ isOpen' = ok
       /\ result' = [result EXCEPT !.failed = IF ok THEN "" ELSE "OpenBySerial"]
  /\ closedBy' = ""
  /\ fg' = [fg EXCEPT !.pc = "c393"]
  /\ UNCHANGED << device, table, devices, guiVars, ui, userVars, fgCalls,
                  written, threads, thread, unexpectedLog >>

\* self.device = osc1lite.OSC1Lite(self._dev): a new session, to which
\* nothing has been written
AssignDevice ==
  /\ fg.pc = "c393"
  /\ device' = OSC1Lite
  /\ written' = [c \in Channels |-> NoInfo]
  /\ fg' = [fg EXCEPT !.pc = "c394"]
  /\ UNCHANGED << isOpen, table, devices, guiVars, ui, userVars, fgCalls,
                  result, threads, thread, logVars >>

\* self.thread.join() returns; configure is called
JoinConnect ==
  /\ fg.pc = "c394"
  /\ JoinReturns(thread)
  /\ fg' = [fg EXCEPT !.pc = InitSteps[1]]
  /\ fgCalls' = Append(fgCalls, Call(InitSteps[1], -1, NoInfo, "ignore_hash_error"))
  /\ UNCHANGED << sessionVars, table, devices, guiVars, ui, userVars, result,
                  written, threads, thread, logVars >>

\* configure, reset, init_dac or enable_dac_output returns and the next
\* step is called, or it raises and the exception leaves the handler
InitStepRet ==
  /\ fg.pc \in { InitSteps[k] : k \in 1 .. Len(InitSteps) }
  /\ LET k == StepIndex(fg.pc) IN
       \E ok \in BOOLEAN :
         IF ok
           THEN /\ fg' = [fg EXCEPT !.pc = IF k < Len(InitSteps)
                                             THEN InitSteps[k + 1] ELSE "c400"]
                /\ fgCalls' = IF k < Len(InitSteps)
                                THEN Append(fgCalls, Call(InitSteps[k + 1], -1, NoInfo, ""))
                                ELSE fgCalls
                /\ UNCHANGED result
           ELSE /\ fg' = Idle
                /\ fgCalls' = << >>
                /\ result' = [result EXCEPT !.end = "raised", !.failed = fg.pc,
                                            !.exc = "DeviceError"]
  /\ UNCHANGED << sessionVars, table, devices, guiVars, ui, userVars,
                  written, threads, thread, logVars >>

\* the label, the channel buttons, the new thread and its start
ConnectFinish ==
  /\ fg.pc = "c400"
  /\ connectLabel' = "Disconnect"
  /\ ui' = [c \in Channels |->
              [ui[c] EXCEPT !.trigger_button = TRUE, !.stop_button = TRUE,
                            !.trigger_out_enabled = TRUE]]
  /\ threads' = Append(threads, Frame(ConnectTarget, StartPc(ConnectTarget)))
  /\ thread' = Len(threads) + 1
  /\ fg' = Idle
  /\ fgCalls' = << >>
  /\ result' = [result EXCEPT !.end = "returned"]
  /\ UNCHANGED << sessionVars, table, devices, choiceSel, choiceEnabled,
                  connectEnabled, userVars, written, logVars >>

\* the SetValue(False) left out
ToggleKept(v) == v

\* the value of a trigger-out toggle after a disconnect:
\* x.trigger_out_toggle.SetValue(False) (oscgui.py:423)
ToggleAfterDisconnect(v) == FALSE

\* Close returns
CloseRet ==
  /\ fg.pc = "Close"
  /\ isOpen' = FALSE
  /\ closedBy' = IF isOpen THEN "Close" ELSE closedBy
  /\ fg' = [fg EXCEPT !.pc = "c412"]
  /\ UNCHANGED << device, table, devices, guiVars, ui, userVars, fgCalls,
                  result, written, threads, thread, unexpectedLog >>

\* self.device = None: the session, and what was written to it, is let go
ClearDevice ==
  /\ fg.pc = "c412"
  /\ device' = None
  /\ written' = [c \in Channels |-> NoInfo]
  /\ fg' = [fg EXCEPT !.pc = "c413"]
  /\ UNCHANGED << isOpen, table, devices, guiVars, ui, userVars, fgCalls,
                  result, threads, thread, logVars >>

\* self.thread.join() returns; the new thread is started, the selection is
\* enabled and the channel controls are reset and disabled
JoinDisconnect ==
  /\ fg.pc = "c413"
  /\ JoinReturns(thread)
  /\ threads' = Append(threads, Frame(DisconnectTarget, StartPc(DisconnectTarget)))
  /\ thread' = Len(threads) + 1
  /\ choiceEnabled' = TRUE
  /\ connectLabel' = "Connect"
  /\ ui' = [c \in Channels |->
              [ui[c] EXCEPT !.trigger_button = FALSE, !.stop_button = FALSE,
                            !.trigger_out_toggle =
                               ToggleAfterDisconnect(ui[c].trigger_out_toggle),
                            !.trigger_out_enabled = FALSE]]
  /\ fg' = Idle
  /\ fgCalls' = << >>
  /\ result' = [result EXCEPT !.end = "returned"]
  /\ UNCHANGED << sessionVars, table, devices, choiceSel, connectEnabled,
                  userVars, written, logVars >>

\* ------------------------------------------------------------------ channel commands
\* Rise times the user types into rise_time_text, in 1/100 ms ('0.05' is
\* 5): the default '0', and values below, at and above each threshold
RiseTexts == { 0, 4, 5, 6, 29, 30, 31, 74, 75, 149, 150, 151, 1000 }

\* `<=' in place of `<'
RiseModeInclusive(rise) ==
  IF rise <= 5 THEN 0
  ELSE IF rise <= 30 THEN 1
  ELSE IF rise <= 75 THEN 2
  ELSE IF rise <= 150 THEN 3
  ELSE 4

\* SquareWavePanel.get_waveform: rise time (in 1/100 ms) to rise mode
RiseMode(rise) ==
  IF rise < 5 THEN 0
  ELSE IF rise < 30 THEN 1
  ELSE IF rise < 75 THEN 2
  ELSE IF rise < 150 THEN 3
  ELSE 4

\* WaveFormPanel.channel_info of slot s: the square wave of the panel's
\* text fields ('2000', '100', '200' and the rise time) and the pulse count
\* field; ext_trig as ChannelInfo's constructor leaves it
PanelInfo(s) ==
  ChannelInfo(2000, Seconds(100), Seconds(200), RiseMode(panels[s].rise_time),
              panels[s].num_of_pulses, 0)

\* the continuous toggle not looked at
PulsesKept(continuous, n) == n

\* `if x.continuous_toggle.GetValue(): data.n_pulses = 0' (oscgui.py:358-359)
Pulses(continuous, n) == IF continuous THEN 0 ELSE n

\* the ChannelInfo on_trigger builds for channel ch (oscgui.py:355-359)
TriggerInfo(ch) ==
  LET data == PanelInfo(ui[ch].waveform_choice) IN
    [data EXCEPT !.ext_trig = ui[ch].trigger_choice,
                 !.n_pulses = Pulses(ui[ch].continuous_toggle, data.n_pulses)]

\* osc1lite.ChannelInfo(osc1lite.SquareWaveform()): zero amplitude, zero period
StopInfo == ChannelInfo(0, Seconds(0), Seconds(0), 0, 1, 0)

\* an off-by-one channel
StopChannelNext(ch) == (ch + 1) % NumChannels

\* the channel on_stop writes to: the one whose stop button was pressed
StopChannel(ch) == ch

\* the trigger source not looked at
TriggersAlways(handler, data) == TRUE

\* whether trigger_channel follows set_channel (oscgui.py:361, 385)
TriggersAfter(handler, data) == handler = "on_stop" \/ data.ext_trig = 0

\* `assert isinstance(self.device, osc1lite.OSC1Lite)' fails in handler h
AssertFails(h) ==
  /\ device # OSC1Lite
  /\ result' = Result(h, "", "raised", "", "AssertionError")
  /\ UNCHANGED << fg, fgCalls, written >>

\* the handler raised by a control of channel src enters set_channel(ch, data)
EnterSetChannel(h, src, ch, data) ==
  /\ device = OSC1Lite
  /\ fg' = [pc |-> "set_channel", handler |-> h, src |-> src, ch |-> ch,
            data |-> data]
  /\ fgCalls' = << Call("set_channel", ch, data, "") >>
  /\ UNCHANGED << result, written >>

\* a trigger button is pressed
OnTrigger(ch) ==
  /\ fg.pc = "idle"
  /\ ui[ch].trigger_button
  /\ \/ AssertFails("on_trigger")
     \/ EnterSetChannel("on_trigger", ch, ch, TriggerInfo(ch))
  /\ UNCHANGED << sessionVars, table, devices, guiVars, ui, userVars,
                  threads, thread, logVars >>

\* a stop button is pressed
OnStop(ch) ==
  /\ fg.pc = "idle"
  /\ ui[ch].stop_button
  /\ \/ AssertFails("on_stop")
     \/ EnterSetChannel("on_stop", ch, StopChannel(ch), StopInfo)
  /\ UNCHANGED << sessionVars, table, devices, guiVars, ui, userVars,
                  threads, thread, logVars >>

\* set_channel returns; trigger_channel is called, or the handler is done
SetChannelRet ==
  /\ fg.pc = "set_channel"
  /\ written' = [written EXCEPT ![fg.ch] = fg.data]
  /\ IF TriggersAfter(fg.handler, fg.data)
       THEN /\ fg' = [fg EXCEPT !.pc = "trigger_channel"]
            /\ fgCalls' = Append(fgCalls, Call("trigger_channel", fg.ch, NoInfo, ""))
       ELSE /\ fg' = Idle
            /\ fgCalls' = << >>
  /\ UNCHANGED << sessionVars, table, devices, guiVars, ui, userVars,
                  result, threads, thread, logVars >>

\* trigger_channel or set_trigger_out returns
CommandRet ==
  /\ fg.pc \in { "trigger_channel", "set_trigger_out" }
  /\ fg' = Idle
  /\ fgCalls' = << >>
  /\ UNCHANGED << sessionVars, table, devices, guiVars, ui, userVars,
                  result, written, threads, thread, logVars >>

\* on_toggle for a trigger-out toggle: the button has changed its value;
\* set_trigger_out(ch, value) is called
OnToggleTriggerOut(ch) ==
  /\ fg.pc = "idle"
  /\ ui[ch].trigger_out_enabled
  /\ ui' = [ui EXCEPT ![ch].trigger_out_toggle = ~ui[ch].trigger_out_toggle]
  /\ \/ AssertFails("on_toggle")
     \/ /\ device = OSC1Lite
        /\ fg' = [pc |-> "set_trigger_out", handler |-> "on_toggle",
                  src |-> ch, ch |-> ch, data |-> NoInfo]
        /\ fgCalls' = << Call("set_trigger_out", ch, NoInfo,
                              IF ui'[ch].trigger_out_toggle THEN "True" ELSE "False") >>
        /\ UNCHANGED << result, written >>
  /\ UNCHANGED << sessionVars, table, devices, guiVars, userVars,
                  threads, thread, logVars >>

\* on_toggle for a continuous toggle: only the label follows the value
OnToggleContinuous(ch) ==
  /\ fg.pc = "idle"
  /\ edits < MaxEdits
  /\ ui' = [ui EXCEPT ![ch].continuous_toggle = ~ui[ch].continuous_toggle]
  /\ edits' = edits + 1
  /\ UNCHANGED << sessionVars, table, devices, guiVars, panels, preview, fg,
                  fgCalls, result, written, threads, thread, logVars >>

\* on_trigger_choice: the trigger source of a channel is changed
OnTriggerChoice(ch) ==
  /\ fg.pc = "idle"
  /\ edits < MaxEdits
  /\ ui' = [ui EXCEPT ![ch].trigger_choice = 1 - ui[ch].trigger_choice]
  /\ edits' = edits + 1
  /\ UNCHANGED << sessionVars, table, devices, guiVars, panels, preview, fg,
                  fgCalls, result, written, threads, thread, logVars >>

\* the user picks another waveform slot for a channel (no handler bound)
SelectWaveform(ch, s) ==
  /\ fg.pc = "idle"
  /\ edits < MaxEdits
  /\ s # ui[ch].waveform_choice
  /\ ui' = [ui EXCEPT ![ch].waveform_choice = s]
  /\ edits' = edits + 1
  /\ UNCHANGED << sessionVars, table, devices, guiVars, panels, preview, fg,
                  fgCalls, result, written, threads, thread, logVars >>

\* the user changes a slot's pulse count (no handler bound)
SetPulses(s, n) ==
  /\ fg.pc = "idle"
  /\ edits < MaxEdits
  /\ n # panels[s].num_of_pulses
  /\ panels' = [panels EXCEPT ![s].num_of_pulses = n]
  /\ edits' = edits + 1
  /\ UNCHANGED << sessionVars, table, devices, guiVars, ui, preview, fg,
                  fgCalls, result, written, threads, thread, logVars >>

\* the user types another rise time into a slot's field (no handler bound)
SetRiseTime(s, r) ==
  /\ fg.pc = "idle"
  /\ r # panels[s].rise_time
  /\ panels' = [panels EXCEPT ![s].rise_time = r]
  /\ UNCHANGED << sessionVars, table, devices, guiVars, ui, edits, preview,
                  fg, fgCalls, result, written, threads, thread, logVars >>

\* WaveFormPanel.on_preview of slot s: get_waveform reads the rise time and
\* derives the mode, which the plot is drawn from
OnPreview(s) ==
  /\ fg.pc = "idle"
  /\ preview' = [slot |-> s, rise_time |-> panels[s].rise_time,
                 mode |-> RiseMode(panels[s].rise_time)]
  /\ UNCHANGED << sessionVars, table, devices, guiVars, ui, panels, edits,
                  fg, fgCalls, result, written, threads, thread, logVars >>

\* ------------------------------------------------------------------ specification
\* a step of thread t; get_channel_warnings answers with one of `answers'
ThreadStep(t, answers) ==
  \/ ListerWhile(t)
  \/ GetDeviceCountRet(t)
  \/ GetDeviceListModelRet(t)
  \/ GetDeviceListSerialRet(t)
  \/ ListerPublish(t)
  \/ ListerSelect(t)
  \/ WatcherWhile(t)
  \/ WatcherCheck(t)
  \/ WatcherIsOpenRet(t)
  \/ WatcherCallWarnings(t)
  \/ WatcherWarningsRet(t, answers)
  \/ WatcherReport(t)

\* the steps of on_connect once entered
ConnectStep ==
  \/ OpenBySerialRet
  \/ AssignDevice
  \/ JoinConnect
  \/ InitStepRet
  \/ ConnectFinish
  \/ CloseRet
  \/ ClearDevice
  \/ JoinDisconnect

\* the steps of on_trigger, on_stop and on_toggle once entered
ChannelStep ==
  \/ SetChannelRet
  \/ CommandRet

\* the user presses a control of a channel that talks to the device
CommandStep ==
  \/ \E ch \in Channels : OnTrigger(ch)
  \/ \E ch \in Channels : OnStop(ch)
  \/ \E ch \in Channels : OnToggleTriggerOut(ch)

\* the user changes a widget that only holds a setting
EditStep ==
  \/ \E ch \in Channels : OnToggleContinuous(ch)
  \/ \E ch \in Channels : OnTriggerChoice(ch)
  \/ \E ch \in Channels, s \in Slots : SelectWaveform(ch, s)
  \/ \E s \in Slots, n \in 1 .. MaxPulses : SetPulses(s, n)

\* the user works on a waveform slot: rise time and preview
WaveformStep ==
  \/ \E s \in Slots, r \in RiseTexts : SetRiseTime(s, r)
  \/ \E s \in Slots : OnPreview(s)

EnvStep == EnvTable \/ EnvClose

\* Every action, under any environment.
Next ==
  \/ \E t \in 1 .. MaxThreads : ThreadStep(t, SUBSET Channels)
  \/ OnConnect
  \/ ConnectStep
  \/ CommandStep
  \/ ChannelStep
  \/ EditStep
  \/ WaveformStep
  \/ EnvStep

Spec == Init /\ [][Next]_vars

\* The session's life under any environment: the user presses Connect and
\* Disconnect, devices come and go, the open device may be unplugged and
\* reports any overlaps.  The channel controls are left alone; their
\* handlers write none of self.device, self.thread, the transport's state.
SessionNext ==
  \/ \E t \in 1 .. MaxThreads : ThreadStep(t, SUBSET Channels)
  \/ OnConnect
  \/ ConnectStep
  \/ EnvStep

SessionSpec == Init /\ [][SessionNext]_vars

\* Scheduling: a thread that can step does, and a handler that has been
\* entered runs on; the user and the environment are under no obligation.
FairSessionSpec ==
  /\ SessionSpec
  /\ \A t \in 1 .. MaxThreads : WF_vars(ThreadStep(t, SUBSET Channels))
  /\ WF_vars(ConnectStep)

\* The channel settings and commands, the user doing anything, under a
\* quiet environment: the devices attached stay, the open device is not
\* unplugged and reports no overlap.
ChannelNext ==
  \/ \E t \in 1 .. MaxThreads : ThreadStep(t, { {} })
  \/ OnConnect
  \/ ConnectStep
  \/ CommandStep
  \/ ChannelStep
  \/ EditStep

ChannelSpec == Init /\ [][ChannelNext]_vars

\* The waveform slots alone: the user types rise times and previews, before
\* any device is connected.
WaveformNext == WaveformStep

WaveformSpec == Init /\ [][WaveformNext]_vars

\* ================================================================== claims
ListerAlive == \E t \in Threads : threads[t].kind = "device_lister" /\ Alive(t)
WatcherAlive == \E t \in Threads : threads[t].kind = "device_watcher" /\ Alive(t)
AliveThreads == { t \in Threads : Alive(t) }

\* C1 as stated: the two loops never run at the same time, and the loop
\* that runs matches the session: device_lister only while self.device is
\* None, device_watcher only while it is a session.
C1_LoopMatchesSessionAlways ==
  /\ ~(ListerAlive /\ WatcherAlive)
  /\ ListerAlive => device = None
  /\ WatcherAlive => device # None

\* C1 amended: at most one polling thread is alive at any time, and it
\* matches the session except in the handoff window of on_connect, between
\* the assignment to self.device and the return of self.thread.join(),
\* where the loop that is being stopped finishes its iteration.
C1_LoopMatchesSessionOutsideHandoff ==
  /\ Cardinality(AliveThreads) <= 1
  /\ (ListerAlive /\ device # None) => fg.pc = "c394"
  /\ (WatcherAlive /\ device = None) => fg.pc = "c413"

\* C1 witness: the device_lister still in a transport call after the
\* session was assigned, the handler waiting in join.
C1_Witness ==
  /\ fg.pc = "c394"
  /\ device = OSC1Lite
  /\ threads[thread].kind = "device_lister"
  /\ threads[thread].pc = "GetDeviceListSerial"

\* the calls on self._dev and self.device made by the handlers, and those
\* made by the polling threads
FgTransportCalls ==
  { "OpenBySerial", "Close", "configure", "reset", "init_dac",
    "enable_dac_output", "set_channel", "trigger_channel", "set_trigger_out" }
BgTransportCalls ==
  { "GetDeviceCount", "GetDeviceListModel", "GetDeviceListSerial", "IsOpen",
    "get_channel_warnings" }

\* C2 as stated: no transport call of a foreground handler is in progress
\* while a transport call of a polling thread is in progress.
C2_NoConcurrentTransportCalls ==
  ~(/\ fg.pc \in FgTransportCalls
    /\ \E t \in Threads : threads[t].pc \in BgTransportCalls)

\* C3: whenever a thread is started, self.thread (the thread joined just
\* before) and every other thread started earlier has ended: the
\* device_watcher starts after the device_lister has ended, a new
\* device_lister after the device_watcher has ended.
C3_JoinBeforeStart ==
  [][Len(threads') > Len(threads) =>
       /\ ~Alive(thread)
       /\ \A t \in Threads : ~Alive(t)
       /\ threads'[Len(threads')].kind = "device_watcher"
            => threads[thread].kind = "device_lister"
       /\ device' = OSC1Lite <=> threads'[Len(threads')].kind = "device_watcher"]_vars

\* C3 witness: both handoffs have happened, each thread joined after it
\* left its loop by the loop test.
C3_Witness ==
  /\ Len(threads) = 3
  /\ threads[1].exit = "cond"
  /\ threads[2].kind = "device_watcher"
  /\ threads[2].exit = "cond"
  /\ threads[3].kind = "device_lister"
  /\ Alive(3)

\* C4 as stated: after a connect in which a step failed (OpenBySerial,
\* configure, reset, init_dac or enable_dac_output) no session is held and
\* no device_watcher runs.
C4_FailedConnectLeavesDisconnected ==
  (/\ fg.pc = "idle"
   /\ result.handler = "on_connect"
   /\ result.branch = "connect"
   /\ result.failed # "")
  => (device = None /\ ~WatcherAlive)

\* C5: a disconnect pressed while a session is held
\* completes: once Close is entered the handler comes to its end with the
\* transport closed, no session held and a device_lister running; and while
\* the handler waits in join, the thread joined does not start another
\* iteration of its loop.
C5_DisconnectCompletes ==
  /\ (fg.pc = "Close") ~>
       (/\ fg.pc = "idle"
        /\ result.branch = "disconnect"
        /\ result.end = "returned"
        /\ ~isOpen
        /\ device = None
        /\ threads[thread].kind = "device_lister"
        /\ Alive(thread))
  /\ [][(fg.pc = "c413" /\ threads[thread].pc = "w201")
          => threads'[thread].pc \in { "w201", "done" }]_vars

\* C5 witness: the disconnect has come to its end after the device_watcher,
\* which was in its loop when the button was pressed, left it.
C5_Witness ==
  /\ fg.pc = "idle"
  /\ result.branch = "disconnect"
  /\ result.end = "returned"
  /\ device = None
  /\ ~isOpen
  /\ Len(threads) = 3
  /\ threads[2].kind = "device_watcher"
  /\ threads[2].exit \in { "cond", "AssertionError", "AttributeError" }
  /\ Alive(3)

ClosedExits == { t \in Threads : threads[t].exit = "closed" }

\* C6: a device_watcher that finds the transport not open while the
\* session is held logs 'device closed unexpectedly' once and ends there:
\* the step of IsOpen returning False adds one warning and ends the thread
\* without a call of get_channel_warnings, the warnings logged are as many
\* as the threads that ended this way, a thread that has ended takes no
\* further step, and only on_connect's OpenBySerial opens the transport.
C6_UnexpectedDisconnectOnce ==
  /\ [][\A t \in Threads :
          (threads[t].pc = "IsOpen" /\ ~isOpen /\ threads'[t] # threads[t])
          => /\ unexpectedLog' = unexpectedLog + 1
             /\ threads'[t] = Ended("device_watcher", "closed")]_vars
  /\ [](unexpectedLog = Cardinality(ClosedExits))
  /\ [][\A t \in Threads : ~Alive(t) => threads'[t] = threads[t]]_vars
  /\ [][(isOpen' /\ ~isOpen) => fg.pc = "OpenBySerial"]_vars

\* C6 witness: the open device was unplugged under a held session and the
\* device_watcher has logged the warning and ended.
C6_Witness ==
  /\ device = OSC1Lite
  /\ ~isOpen
  /\ unexpectedLog = 1
  /\ threads[thread].kind = "device_watcher"
  /\ threads[thread].exit = "closed"
  /\ result.failed = ""
  /\ fg.pc = "idle"

\* C7: the `for i in warn' loop logs one warning for each channel that
\* get_channel_warnings returned in this iteration and none for any other,
\* whether or not the loop before logged the channel.
C7_EveryFlaggedChannelLogged ==
  [][\A t \in Threads :
       (threads[t].pc = "w208" /\ threads'[t] # threads[t])
       => \A c \in Channels :
            threads'[t].logged[c] = IF c \in threads[t].warn THEN 1 ELSE 0]_vars

\* C7 witness: every channel has been logged in two loops in a row.
C7_Witness ==
  \E t \in Threads :
    /\ threads[t].pc = "w201"
    /\ threads[t].again
    /\ \A c \in Channels : threads[t].logged[c] = 1

\* the entries of seen before its first gap
RECURSIVE BeforeGap(_)
BeforeGap(seen) ==
  IF seen = << >> \/ ~Present(Head(seen).model, Head(seen).serial)
    THEN << >>
    ELSE << Head(seen) >> \o BeforeGap(Tail(seen))

\* the dict serial -> model of a sequence of entries
RECURSIVE DictOf(_)
DictOf(entries) ==
  IF entries = << >> THEN {}
  ELSE LET n == Len(entries) IN
         DictSet(DictOf(SubSeq(entries, 1, n - 1)), entries[n].serial,
                 entries[n].model)

\* C8: a discovery poll asks for the indices 0, 1, 2, ... in this order,
\* goes on only after an entry with model and serial, and ends at the
\* first gap or at the count; what it publishes is the dict of the entries
\* before the first gap.
C8_EnumerationStopsAtFirstGap ==
  /\ [](\A t \in Threads :
          LET f == threads[t] IN
            /\ f.pc \in { "GetDeviceListModel", "GetDeviceListSerial" }
                 => (f.i = Len(f.seen) /\ BeforeGap(f.seen) = f.seen)
            /\ f.pc = "l180"
                 => /\ f.devs = DictOf(BeforeGap(f.seen))
                    /\ \/ Len(f.seen) = f.n /\ BeforeGap(f.seen) = f.seen
                       \/ /\ f.seen # << >>
                          /\ Len(BeforeGap(f.seen)) = Len(f.seen) - 1)
  /\ [][devices' # devices =>
          \E t \in Threads :
            /\ threads[t].pc = "l180"
            /\ devices' = DictOf(BeforeGap(threads[t].seen))]_vars

\* C8 witness: the poll was handed a device, then a gap, ended there and
\* has published the one device, with a further device behind the gap.
C8_Witness ==
  \E t \in Threads :
    /\ threads[t].pc = "l187"
    /\ threads[t].seen = << Entry("OSC1Lite-A", "SN001"), Entry("", "") >>
    /\ devices = { << "SN001", "OSC1Lite-A" >> }
    /\ Len(table) = 3
    /\ Present(table[3].model, table[3].serial)

\* C9: the ChannelInfo on_trigger passes to set_channel has n_pulses 0 if
\* the channel's continuous toggle is on, and the pulse count field of the
\* channel's waveform slot if it is off.
C9_ContinuousForcesZeroPulses ==
  (fg.pc = "set_channel" /\ fg.handler = "on_trigger")
  => /\ fgCalls = << Call("set_channel", fg.src, fg.data, "") >>
     /\ fg.data.n_pulses =
          IF ui[fg.src].continuous_toggle
            THEN 0
            ELSE panels[ui[fg.src].waveform_choice].num_of_pulses

\* C9 witness: a trigger with the toggle on and a pulse count of 2 in the
\* field passes n_pulses 0.
C9_Witness ==
  /\ fg.pc = "set_channel"
  /\ fg.handler = "on_trigger"
  /\ ui[fg.src].continuous_toggle
  /\ panels[ui[fg.src].waveform_choice].num_of_pulses = 2
  /\ fg.data.n_pulses = 0

\* C10: on_stop for channel i calls set_channel(i, zero amplitude, zero
\* period) and then trigger_channel(i), whatever was written to the channel
\* before and whatever its trigger source; at its end the ChannelInfo last
\* written to channel i has amplitude 0 and period 0, and no step of the
\* handler changes what was last written to another channel.
C10_StopWritesZeroToItsChannel ==
  /\ [][(fg.handler = "on_stop" /\ fg.pc # "idle" /\ fg'.pc = "idle")
          => /\ fgCalls = << Call("set_channel", fg.src, StopInfo, ""),
                             Call("trigger_channel", fg.src, NoInfo, "") >>
             /\ written'[fg.src].amp = 0
             /\ written'[fg.src].period = Seconds(0)]_vars
  /\ [][fg.handler = "on_stop"
          => \A c \in Channels \ {fg.src} : written'[c] = written[c]]_vars

\* C10 witness: a stop on an externally triggered channel that had a
\* waveform written has written zero, and the other channel keeps its
\* waveform.
C10_Witness ==
  /\ fg.handler = "on_stop"
  /\ fg.pc = "trigger_channel"
  /\ ui[fg.src].trigger_choice = 1
  /\ written[fg.src] = StopInfo
  /\ \E c \in Channels \ {fg.src} : written[c].amp = 2000

\* C11: on_trigger for channel ch calls set_channel(ch, data) first and
\* trigger_channel(ch) after it if and only if the channel's trigger source
\* is the PC trigger (0); for an external trigger it ends after set_channel.
\* Whenever trigger_channel(ch) is in progress, the call entered just before
\* it was set_channel on the same channel.
C11_TriggerAfterSetOnlyForPcTrigger ==
  /\ [][(fg.handler = "on_trigger" /\ fg.pc # "idle" /\ fg'.pc = "idle")
          => /\ fg.data.ext_trig = ui[fg.src].trigger_choice
             /\ fgCalls =
                  IF ui[fg.src].trigger_choice = 0
                    THEN << Call("set_channel", fg.src, fg.data, ""),
                            Call("trigger_channel", fg.src, NoInfo, "") >>
                    ELSE << Call("set_channel", fg.src, fg.data, "") >>]_vars
  /\ [](fg.pc = "trigger_channel"
          => /\ Len(fgCalls) = 2
             /\ fgCalls[1].op = "set_channel"
             /\ fgCalls[1].ch = fgCalls[2].ch
             /\ fgCalls[2] = Call("trigger_channel", fg.ch, NoInfo, ""))

\* C11 witness: a trigger on an externally triggered channel is in
\* set_channel, after a trigger on a PC triggered channel had written its
\* waveform.
C11_Witness ==
  /\ fg.handler = "on_trigger"
  /\ fg.pc = "set_channel"
  /\ fg.data.ext_trig = 1
  /\ \E c \in Channels \ {fg.src} :
       written[c].ext_trig = 0 /\ written[c].amp = 2000

\* C12: the rise mode get_waveform derives from a rise time t (1/100 ms) is
\* 0 iff t < 0.05 ms, 1 iff 0.05 <= t < 0.3, 2 iff 0.3 <= t < 0.75, 3 iff
\* 0.75 <= t < 1.5, 4 iff t >= 1.5: a threshold value itself is in the
\* higher bucket.
C12_RiseModeBuckets ==
  preview # NoPreview =>
    LET t == preview.rise_time
        m == preview.mode
    IN /\ m \in 0 .. 4
       /\ m = 0 <=> t < 5
       /\ m = 1 <=> (5 <= t /\ t < 30)
       /\ m = 2 <=> (30 <= t /\ t < 75)
       /\ m = 3 <=> (75 <= t /\ t < 150)
       /\ m = 4 <=> t >= 150

\* C12 witness: a preview of a slot whose rise time is the threshold 0.05
\* got mode 1, while another slot holds the threshold 1.5.
C12_Witness ==
  /\ preview.rise_time = 5
  /\ preview.mode = 1
  /\ \E s \in Slots \ {preview.slot} : panels[s].rise_time = 150

\* C14 as stated: whenever no handler is in progress (no connect or
\* disconnect handoff under way), exactly one polling thread is alive.
C14_ExactlyOnePollerWhenIdle ==
  fg.pc = "idle" => Cardinality(AliveThreads) = 1

\* C14, the case of the unexpected closure alone: after a connect in which
\* no step failed, exactly one polling thread is alive whenever no handler
\* is in progress.
C14_OnePollerAfterCleanConnect ==
  (/\ fg.pc = "idle"
   /\ result.branch = "connect"
   /\ result.end = "returned"
   /\ result.failed = "")
  => Cardinality(AliveThreads) = 1

\* C15: a step of a polling thread changes none of self.device, the
\* transport's open state, self.thread, the handler in progress and what
\* was written to the channels, and starts no thread; no polling thread is
\* ever inside a call that opens, closes or commands the device.  The
\* session, self.thread and the set of threads change only in on_connect,
\* and the transport is opened only there.
C15_ThreadsOnlyObserve ==
  /\ [][\A t \in Threads :
          threads'[t] # threads[t]
          => /\ device' = device
             /\ isOpen' = isOpen
             /\ thread' = thread
             /\ Len(threads') = Len(threads)
             /\ fg' = fg
             /\ fgCalls' = fgCalls
             /\ written' = written]_vars
  /\ [](\A t \in Threads : threads[t].pc \notin FgTransportCalls)
  /\ [][(device' # device \/ thread' # thread \/ Len(threads') # Len(threads)
          \/ (isOpen' /\ ~isOpen))
         => fg.handler = "on_connect"]_vars

\* C15 witness: the device_watcher has found the transport closed and
\* ended, and the session is still held, the GUI still in connected mode.
C15_Witness ==
  /\ Len(threads) = 2
  /\ threads[1].exit = "cond"
  /\ threads[2].exit = "closed"
  /\ device = OSC1Lite
  /\ connectLabel = "Disconnect"
  /\ closedBy = "unplugged"

CommandControlsOff ==
  \A c \in Channels :
    /\ ~ui[c].trigger_button
    /\ ~ui[c].stop_button
    /\ ~ui[c].trigger_out_enabled

\* C16: a connect first disables the device selection and calls
\* OpenBySerial with the serial selected; when it comes to its end without
\* a step raising, the calls it made are OpenBySerial, configure (hash
\* errors ignored), reset, init_dac, enable_dac_output in this order; up to
\* that last step the selection stays disabled, the channel command controls
\* stay disabled and no device_watcher runs, and the last step enables the
\* controls and starts the device_watcher.
C16_ConnectOrder ==
  /\ [][(fg.pc = "idle" /\ fg'.pc = "OpenBySerial")
          => /\ ~choiceEnabled'
             /\ fgCalls' = << Call("OpenBySerial", -1, NoInfo, choiceSel) >>]_vars
  /\ []((fg.handler = "on_connect" /\ result.branch = "connect"
          /\ result.end = "running")
         => /\ ~choiceEnabled
            /\ CommandControlsOff
            /\ ~WatcherAlive)
  /\ [][(fg.pc = "c400" /\ fg'.pc = "idle")
          => /\ [k \in 1 .. Len(fgCalls) |-> fgCalls[k].op] =
                  << "OpenBySerial", "configure", "reset", "init_dac",
                     "enable_dac_output" >>
             /\ fgCalls[2].arg = "ignore_hash_error"
             /\ \A c \in Channels :
                  /\ ui'[c].trigger_button
                  /\ ui'[c].stop_button
                  /\ ui'[c].trigger_out_enabled
             /\ threads' = Append(threads, Frame("device_watcher", "w201"))
             /\ thread' = Len(threads')]_vars

\* C16 witness: a connect has come to its end with no step failed: the
\* transport is open, the controls are enabled, the device_watcher runs.
C16_Witness ==
  /\ fg.pc = "idle"
  /\ result = Result("on_connect", "connect", "returned", "", "")
  /\ isOpen
  /\ device = OSC1Lite
  /\ ~choiceEnabled
  /\ ~CommandControlsOff
  /\ threads[thread].kind = "device_watcher"
  /\ threads[thread].pc = "IsOpen"

\* C17 as stated: 'device closed unexpectedly' is never logged for a
\* transport that on_connect's own Close has closed.
C17_NoReportAfterUserDisconnect ==
  [][unexpectedLog' # unexpectedLog => closedBy # "Close"]_vars

\* C18 as stated: no device_watcher ends by an exception: neither by the
\* assert at the top of its loop body nor by get_channel_warnings looked up
\* on None.
C18_WatcherNeverUsesClearedSession ==
  \A t \in Threads :
    threads[t].exit \notin { "AssertionError", "AttributeError" }

\* C19 as stated: in every reachable state, a channel whose trigger button,
\* stop button or trigger-out toggle is enabled implies that a session is
\* held.
C19_ControlsImplySessionAlways ==
  ~CommandControlsOff => device # None

\* C19 amended: whenever no handler is in progress (the only states in
\* which a user action is dispatched), an enabled trigger button, stop
\* button or trigger-out toggle implies that self.device is a session; the
\* controls are enabled with self.device None only inside on_connect's
\* disconnect branch, between self.device = None and the end of the
\* handler; and no handler ever fails its assert.
C19_ControlsImplySessionWhenIdle ==
  /\ (fg.pc = "idle" /\ ~CommandControlsOff) => device = OSC1Lite
  /\ (~CommandControlsOff /\ device = None) => fg.pc = "c413"
  /\ result.exc # "AssertionError"

\* C19 witness: with the controls enabled and the session held, a trigger
\* and a stop have gone through on two channels.
C19_Witness ==
  /\ fg.pc = "idle"
  /\ ~CommandControlsOff
  /\ device = OSC1Lite
  /\ result.exc = ""
  /\ \E c, d \in Channels :
       written[c].amp = 2000 /\ written[d] = StopInfo

\* C20: whenever no handler is in progress and no session is held
\* (initially, after every disconnect), every channel's trigger-out toggle
\* is off and its trigger button, stop button and trigger-out toggle are
\* disabled; and no step of on_connect changes a channel's waveform slot,
\* trigger source or continuous toggle.
C20_DisconnectedControlsOff ==
  /\ []((fg.pc = "idle" /\ device = None)
         => /\ CommandControlsOff
            /\ \A c \in Channels : ~ui[c].trigger_out_toggle)
  /\ [][(fg.handler = "on_connect" \/ fg'.handler = "on_connect")
          => \A c \in Channels :
               /\ ui'[c].waveform_choice = ui[c].waveform_choice
               /\ ui'[c].trigger_choice = ui[c].trigger_choice
               /\ ui'[c].continuous_toggle = ui[c].continuous_toggle]_vars

\* C20 witness: a disconnect has come to its end with a channel set to
\* external trigger and continuous mode; the settings are still there.
C20_Witness ==
  /\ fg.pc = "idle"
  /\ device = None
  /\ result = Result("on_connect", "disconnect", "returned", "", "")
  /\ \E c \in Channels :
       /\ ui[c].trigger_choice = 1
       /\ ui[c].continuous_toggle

====
